---- MODULE Spec2Model ----
(***************************************************************************)
(* Model of LemmaAnalyzerApp (app.py): the word pattern WORD_RE, the two   *)
(* morphological backends, the aggregation done by analyze() and the       *)
(* handlers show_pos_coefficients() and export_excel().                    *)
(*                                                                         *)
(* Strings are sequences of one-character strings.  The module is ASCII,   *)
(* so the characters of the program are written with stand-ins:            *)
(*   "k", "o"  two lowercase Cyrillic letters (in [а-яё])                  *)
(*   "K"       the uppercase Cyrillic letter whose lowercase is "k"        *)
(*   "-"       the hyphen                                                  *)
(*   "7"       any character that is neither Cyrillic, hyphen nor space    *)
(*             (a digit, a Latin letter, punctuation)                      *)
(*   " "       whitespace                                                  *)
(* The Russian labels and dialog titles are transliterated.                *)
(***************************************************************************)
EXTENDS Integers, Sequences, FiniteSets, TLC

\* The text in the text widget is made of at most MaxPieces pieces.
MaxPieces == 2

LowerCyr == {"k", "o"}
UpperCyr == {"K"}
Cyrillic == LowerCyr \cup UpperCyr

\* The pieces a text is typed or pasted in: a blank, a stray hyphen, a word, a
\* capitalised word followed by a blank, a word followed by a digit, and a
\* hyphenated word.
Pieces ==
  {<<" ">>, <<"-">>, <<"k">>, <<"K", " ">>, <<"o", "7">>, <<"k", "-", "o">>}

RECURSIVE Concatenations(_)
Concatenations(n) ==
  IF n = 0 THEN {<<>>}
  ELSE LET shorter == Concatenations(n - 1)
       IN shorter \cup {t \o p : t \in shorter, p \in Pieces}

Texts == Concatenations(MaxPieces)

\* str.lower() on one character and on a string.
lower_char(c) == IF c = "K" THEN "k" ELSE c
lower(s) == [i \in 1..Len(s) |-> lower_char(s[i])]

\* Code point order of the characters, as Python compares strings.
ord(c) ==
  CASE c = " " -> 32
    [] c = "-" -> 45
    [] c = "7" -> 55
    [] c = "K" -> 1050
    [] c = "k" -> 1082
    [] c = "o" -> 1086

\* s < t for Python strings: lexicographic by code point.
RECURSIVE str_lt(_, _)
str_lt(s, t) ==
  IF t = <<>> THEN FALSE
  ELSE IF s = <<>> THEN TRUE
  ELSE IF s[1] # t[1] THEN ord(s[1]) < ord(t[1])
  ELSE str_lt(Tail(s), Tail(t))

\* str.strip(): leading and trailing whitespace removed.
RECURSIVE lstrip(_)
lstrip(s) == IF s # <<>> /\ s[1] = " " THEN lstrip(Tail(s)) ELSE s
RECURSIVE rstrip(_)
rstrip(s) ==
  IF s # <<>> /\ s[Len(s)] = " " THEN rstrip(SubSeq(s, 1, Len(s) - 1)) ELSE s
strip(s) == rstrip(lstrip(s))

(***************************************************************************)
(* WORD_RE = [А-Яа-яЁё]+(?:-[А-Яа-яЁё]+)*                                  *)
(***************************************************************************)
\* End (exclusive) of the run of Cyrillic letters starting at i.
RECURSIVE LettersEnd(_, _)
LettersEnd(s, i) ==
  IF i <= Len(s) /\ s[i] \in Cyrillic THEN LettersEnd(s, i + 1) ELSE i

\* From position j after a run of letters: the greedy (?:-letters+)* groups.
RECURSIVE GroupsEnd(_, _)
GroupsEnd(s, j) ==
  IF j + 1 <= Len(s) /\ s[j] = "-" /\ s[j + 1] \in Cyrillic
  THEN GroupsEnd(s, LettersEnd(s, j + 1))
  ELSE j

\* End (exclusive) of the match of WORD_RE at i; i itself when none starts there.
MatchEnd(s, i) ==
  IF i <= Len(s) /\ s[i] \in Cyrillic THEN GroupsEnd(s, LettersEnd(s, i)) ELSE i

\* WORD_RE.fullmatch(s) is not None
fullmatch(s) == s # <<>> /\ MatchEnd(s, 1) = Len(s) + 1

\* [m.group(0) for m in WORD_RE.finditer(s)], scanning from position i.
RECURSIVE finditer_from(_, _)
finditer_from(s, i) ==
  IF i > Len(s) THEN <<>>
  ELSE IF MatchEnd(s, i) = i THEN finditer_from(s, i + 1)
  ELSE <<SubSeq(s, i, MatchEnd(s, i) - 1)>> \o finditer_from(s, MatchEnd(s, i))
finditer(s) == finditer_from(s, 1)

(***************************************************************************)
(* The two tag tables and dict.get(tag, "Неизвестно").                     *)
(***************************************************************************)
UD_POS_RU ==
  [ADJ |-> "Prilagatelnoe", ADP |-> "Predlog", ADV |-> "Narechie",
   AUX |-> "Vspomogatelnyj glagol", CCONJ |-> "Sochinitelnyj soyuz",
   DET |-> "Opredelitel", INTJ |-> "Mezhdometie", NOUN |-> "Sushchestvitelnoe",
   NUM |-> "Chislitelnoe", PART |-> "Chastica", PRON |-> "Mestoimenie",
   PROPN |-> "Imya sobstvennoe", SCONJ |-> "Podchinitelnyj soyuz",
   SYM |-> "Simvol", VERB |-> "Glagol", X |-> "Drugoe"]

PYMORPHY_POS_RU ==
  [NOUN |-> "Sushchestvitelnoe", ADJF |-> "Prilagatelnoe",
   ADJS |-> "Kratkoe prilagatelnoe", COMP |-> "Sravnitelnaya stepen",
   VERB |-> "Glagol", INFN |-> "Infinitiv", PRTF |-> "Prichastie",
   PRTS |-> "Kratkoe prichastie", GRND |-> "Deeprichastie",
   NUMR |-> "Chislitelnoe", ADVB |-> "Narechie", NPRO |-> "Mestoimenie",
   PRED |-> "Predikativ", PREP |-> "Predlog", CONJ |-> "Soyuz",
   PRCL |-> "Chastica", INTJ |-> "Mezhdometie"]

Unknown == "Neizvestno"

\* table.get(tag, "Неизвестно"); a missing tag (None, "") is in neither table.
pos_get(table, tag) == IF tag \in DOMAIN table THEN table[tag] ELSE Unknown

(***************************************************************************)
(* The dictionary backend, self.morph.parse(token)[0].  pymorphy3 is not   *)
(* part of the program; MorphAnalyzer() is a fixed function from tokens to *)
(* (normal_form, tag.POS), a missing POS being "".  The function here      *)
(* maps the words with the same first letter to one normal form, knows no  *)
(* POS for a capitalised word, and so does not assume that parse()         *)
(* ignores letter case.                                                    *)
(***************************************************************************)
Dictionaries == {[normal |-> "head", pos |-> "shape"]}

HasHyphen(s) == \E i \in 1..Len(s) : s[i] = "-"

parse_first(m, token) ==
  [normal_form |->
     IF m.normal = "head" THEN <<lower_char(token[1])>> ELSE lower(token),
   POS |->
     IF m.pos = "shape"
     THEN (IF token[1] \in UpperCyr THEN ""
           ELSE IF HasHyphen(token) THEN "ADVB"
           ELSE IF token[1] = "o" THEN "VERB"
           ELSE "NOUN")
     ELSE "NOUN"]

(***************************************************************************)
(* The statistical backend, self.nlp(text): the words of all sentences of  *)
(* the document in order, each with text, lemma and upos.  stanza is not   *)
(* part of the program; a loaded pipeline is one of a family of fixed      *)
(* functions of the whole text.  A missing (None or empty) text or lemma   *)
(* is <<>>, a missing upos is "".                                          *)
(*   split : whether a "7" is split off as a word of its own or stays      *)
(*           inside the word around it                                     *)
(*   lemma : the lemma is missing, the word as written, or its first letter*)
(*   upos  : the tag depends on the position of the word in the text, or   *)
(*           on the shape of the word                                      *)
(*   pad   : whether the document ends with a word that has no text        *)
(***************************************************************************)
Pipelines ==
  {[split |-> FALSE, lemma |-> "head", upos |-> "position", pad |-> FALSE],
   [split |-> TRUE, lemma |-> "text", upos |-> "shape", pad |-> FALSE],
   [split |-> FALSE, lemma |-> "none", upos |-> "shape", pad |-> TRUE]}

\* The pieces of s between the characters of seps, without the empty ones;
\* with keep, each separator other than whitespace is a piece of its own.
RECURSIVE pieces(_, _, _, _)
pieces(s, seps, keep, cur) ==
  IF s = <<>> THEN (IF cur = <<>> THEN <<>> ELSE <<cur>>)
  ELSE IF s[1] \in seps
  THEN (IF cur = <<>> THEN <<>> ELSE <<cur>>)
       \o (IF keep /\ s[1] # " " THEN <<(<<s[1]>>)>> ELSE <<>>)
       \o pieces(Tail(s), seps, keep, <<>>)
  ELSE pieces(Tail(s), seps, keep, cur \o <<s[1]>>)

tokenize(p, text) ==
  IF p.split THEN pieces(text, {" ", "7"}, TRUE, <<>>)
  ELSE pieces(text, {" "}, FALSE, <<>>)

word_upos(p, w, i) ==
  IF p.upos = "position"
  THEN (IF i % 2 = 1 THEN "NOUN" ELSE "VERB")
  ELSE (IF ~fullmatch(w) THEN "PUNCT"
        ELSE IF w[1] \in UpperCyr THEN "PROPN"
        ELSE IF HasHyphen(w) THEN ""
        ELSE "ADJ")

word_lemma(p, w) ==
  CASE p.lemma = "none" -> <<>>
    [] p.lemma = "text" -> w
    [] p.lemma = "head" -> <<w[1]>>

nlp_call(p, text) ==
  LET ws == tokenize(p, text)
  IN [i \in 1..Len(ws) |->
        [text |-> ws[i], lemma |-> word_lemma(p, ws[i]),
         upos |-> word_upos(p, ws[i], i)]]
     \o (IF p.pad THEN <<[text |-> <<>>, lemma |-> <<>>, upos |-> ""]>> ELSE <<>>)

(***************************************************************************)
(* The aggregation of analyze(): the four local accumulators and the two   *)
(* loops over the words of the backend in use.                             *)
(***************************************************************************)
\* lemma_counts, lemma_forms, pos_counts and total_words as lines 205-209
\* create them.
EmptyDict == <<>>
Fresh ==
  [lemma_counts |-> EmptyDict, lemma_forms |-> EmptyDict,
   pos_counts |-> EmptyDict, total_words |-> 0]

\* d[k] += 1 on a defaultdict(int)
incr(d, k) == IF k \in DOMAIN d THEN [d EXCEPT ![k] = @ + 1] ELSE d @@ (k :> 1)

\* set_form without the membership test: the last label seen is kept.
set_form_overwriting(lf, lemma, form_key, pos_label) ==
  IF lemma \notin DOMAIN lf THEN lf @@ (lemma :> (form_key :> pos_label))
  ELSE [lf EXCEPT ![lemma] =
          [f \in DOMAIN @ \cup {form_key} |->
             IF f = form_key THEN pos_label ELSE @[f]]]

\* if form_key not in lemma_forms[lemma]: lemma_forms[lemma][form_key] = pos_label
set_form(lf, lemma, form_key, pos_label) ==
  IF lemma \notin DOMAIN lf THEN lf @@ (lemma :> (form_key :> pos_label))
  ELSE IF form_key \in DOMAIN lf[lemma] THEN lf
  ELSE [lf EXCEPT ![lemma] = @ @@ (form_key :> pos_label)]

\* Whether the surface form is new for the lemma.
new_form(acc, lemma, form_key) ==
  lemma \notin DOMAIN acc.lemma_forms \/ form_key \notin DOMAIN acc.lemma_forms[lemma]

\* count_word with pos_counts incremented inside the membership test.
count_word_pos_in_test(acc, lemma, form_key, pos_label) ==
  [lemma_counts |-> incr(acc.lemma_counts, lemma),
   lemma_forms |-> set_form(acc.lemma_forms, lemma, form_key, pos_label),
   pos_counts |->
     IF new_form(acc, lemma, form_key) THEN incr(acc.pos_counts, pos_label)
     ELSE acc.pos_counts,
   total_words |-> acc.total_words + 1]

\* count_word with lemma_counts incremented inside the membership test.
count_word_count_in_test(acc, lemma, form_key, pos_label) ==
  [lemma_counts |->
     IF new_form(acc, lemma, form_key) THEN incr(acc.lemma_counts, lemma)
     ELSE acc.lemma_counts,
   lemma_forms |-> set_form(acc.lemma_forms, lemma, form_key, pos_label),
   pos_counts |-> incr(acc.pos_counts, pos_label),
   total_words |-> acc.total_words + 1]

\* count_word that leaves words labelled "Неизвестно" out of pos_counts.
count_word_skips_unknown(acc, lemma, form_key, pos_label) ==
  [lemma_counts |-> incr(acc.lemma_counts, lemma),
   lemma_forms |-> set_form(acc.lemma_forms, lemma, form_key, pos_label),
   pos_counts |->
     IF pos_label = Unknown THEN acc.pos_counts ELSE incr(acc.pos_counts, pos_label),
   total_words |-> acc.total_words + 1]

\* The four statements shared by the two loops.
count_word(acc, lemma, form_key, pos_label) ==
  [lemma_counts |-> incr(acc.lemma_counts, lemma),
   lemma_forms |-> set_form(acc.lemma_forms, lemma, form_key, pos_label),
   pos_counts |-> incr(acc.pos_counts, pos_label),
   total_words |-> acc.total_words + 1]

\* stanza_word without the WORD_RE.fullmatch test of line 215.
stanza_word_unchecked(acc, word) ==
  count_word(acc,
             lower(IF word.lemma # <<>> THEN word.lemma ELSE word.text),
             lower(word.text),
             pos_get(UD_POS_RU, word.upos))

\* One iteration of the loop over sentence.words.
stanza_word(acc, word) ==
  IF ~fullmatch(word.text) THEN acc
  ELSE count_word(acc,
                  lower(IF word.lemma # <<>> THEN word.lemma ELSE word.text),
                  lower(word.text),
                  pos_get(UD_POS_RU, word.upos))

\* One iteration of the loop over WORD_RE.finditer(text).
morph_token(acc, m, token) ==
  LET parse == parse_first(m, token)
  IN count_word(acc, parse.normal_form, lower(token),
                pos_get(PYMORPHY_POS_RU, parse.POS))

\* The accumulators after the first n words of the document.
RECURSIVE stanza_loop(_, _)
stanza_loop(words, n) ==
  IF n = 0 THEN Fresh ELSE stanza_word(stanza_loop(words, n - 1), words[n])

\* The accumulators after the first n tokens of the text.
RECURSIVE morph_loop(_, _, _)
morph_loop(m, tokens, n) ==
  IF n = 0 THEN Fresh ELSE morph_token(morph_loop(m, tokens, n - 1), m, tokens[n])

\* sorted(keys): the keys of a dict of strings in ascending order.
RECURSIVE sorted_keys(_)
sorted_keys(S) ==
  IF S = {} THEN <<>>
  ELSE LET least == CHOOSE k \in S : \A o \in S \ {k} : str_lt(k, o)
       IN <<least>> \o sorted_keys(S \ {least})

\* list(lemma_data.values()): one LemmaEntry per lemma, sorted by lemma.
lemma_entries(acc) ==
  LET keys == sorted_keys(DOMAIN acc.lemma_counts)
  IN [i \in 1..Len(keys) |->
        [lemma |-> keys[i], count |-> acc.lemma_counts[keys[i]],
         forms |-> acc.lemma_forms[keys[i]]]]

(***************************************************************************)
(* What the two tables show.                                               *)
(***************************************************************************)
\* sorted(entry.forms.items()): the (form, pos) pairs in ascending order of form.
forms_list(forms) ==
  LET keys == sorted_keys(DOMAIN forms)
  IN [i \in 1..Len(keys) |-> <<keys[i], forms[keys[i]]>>]

\* The rows (lemma, count, forms_list) of the table and of the sheet.
entry_rows(es) ==
  [i \in 1..Len(es) |-> <<es[i].lemma, es[i].count, forms_list(es[i].forms)>>]

\* All labels of the two tables and "Неизвестно", in the order Python sorts
\* the Russian strings.
LabelOrder ==
  <<"Vspomogatelnyj glagol", "Glagol", "Deeprichastie", "Drugoe",
    "Imya sobstvennoe", "Infinitiv", "Kratkoe prilagatelnoe",
    "Kratkoe prichastie", "Mezhdometie", "Mestoimenie", "Narechie",
    "Neizvestno", "Opredelitel", "Podchinitelnyj soyuz", "Predikativ",
    "Predlog", "Prilagatelnoe", "Prichastie", "Simvol", "Sochinitelnyj soyuz",
    "Soyuz", "Sravnitelnaya stepen", "Sushchestvitelnoe", "Chastica",
    "Chislitelnoe">>

\* sorted(pos_counts): the labels present, in ascending order.
sorted_labels(pc) ==
  SelectSeq(LabelOrder, LAMBDA l : l \in DOMAIN pc)

\* f"{count / total:.4f}" as a number of ten-thousandths, rounded half to even.
format_4f(count, total) ==
  LET q == (count * 10000) \div total
      r == (count * 10000) % total
  IN IF 2 * r > total \/ (2 * r = total /\ q % 2 = 1) THEN q + 1 ELSE q

\* The rows (pos_label, count, coefficient) of the summary table.
summary_rows(pc, total) ==
  LET ls == sorted_labels(pc)
  IN [i \in 1..Len(ls) |-> <<ls[i], pc[ls[i]], format_4f(pc[ls[i]], total)>>]

(***************************************************************************)
(* The state of the application.                                           *)
(***************************************************************************)
VARIABLES
  morph,              \* self.morph
  nlp,                \* self.nlp: not yet assigned, None, or a loaded pipeline
  entries,            \* self.entries
  pos_counts,         \* self.pos_counts
  total_words,        \* self.total_words
  tree,               \* the rows of self.tree
  pos_tree,           \* the rows of self.pos_tree
  total_words_label,  \* the number shown by self.total_words_label
  called,             \* the last handler that ran, what it was given and how it ended
  dialog,             \* the message box that handler showed
  output,             \* the chart window or the workbook that handler produced
  done_run            \* the stripped text of the last analyze() that reached line 246,
                      \* and whether the one before had the same text

vars ==
  <<morph, nlp, entries, pos_counts, total_words, tree, pos_tree,
    total_words_label, called, dialog, output, done_run>>

results == <<entries, pos_counts, total_words>>
widgets == <<tree, pos_tree, total_words_label>>

NlpUnset == [kind |-> "unset"]
NlpNone == [kind |-> "None"]
NlpLoaded(p) == [kind |-> "Pipeline", model |-> p]

NoDialog == [box |-> "", title |-> "", detail |-> ""]
NoOutput == [kind |-> "none"]

\* The exceptions stanza.download / stanza.Pipeline end with.
InitErrors == {"download failed", "unsupported checkpoint"}

\* What analyze() finds in the text widget: only whitespace, no match of
\* WORD_RE, or words.
given(raw) ==
  IF strip(raw) = <<>> THEN "blank"
  ELSE IF finditer(raw) = <<>> THEN "no words"
  ELSE "words"

\* done_run once a run on the stripped text reaches line 246: the text, and
\* whether the run that reached it before had the same text.
Reached(text) ==
  [done |-> TRUE, text |-> text, again |-> done_run.done /\ done_run.text = text]

\* The handler that ran, how it ended and, for analyze(), what it was given.
Called(op, outcome, what) == [op |-> op, outcome |-> outcome, given |-> what]

Init ==
  /\ morph \in Dictionaries
  /\ nlp = NlpUnset
  /\ entries = <<>>
  /\ pos_counts = EmptyDict
  /\ total_words = 0
  /\ tree = <<>>
  /\ pos_tree = <<>>
  /\ total_words_label = 0
  /\ called = Called("", "", "")
  /\ dialog = NoDialog
  /\ output = NoOutput
  /\ done_run = [done |-> FALSE, text |-> <<>>, again |-> FALSE]

\* _init_stanza(), the pipeline loads.
InitStanzaLoads ==
  /\ nlp = NlpUnset
  /\ \E p \in Pipelines : nlp' = NlpLoaded(p)
  /\ called' = Called("_init_stanza", "returned", "")
  /\ dialog' = NoDialog
  /\ output' = NoOutput
  /\ UNCHANGED <<morph, results, widgets, done_run>>

\* The except branch returning None without the warning.
InitStanzaFailsSilently ==
  /\ nlp = NlpUnset
  /\ nlp' = NlpNone
  /\ called' = Called("_init_stanza", "returned", "")
  /\ dialog' = NoDialog
  /\ output' = NoOutput
  /\ UNCHANGED <<morph, results, widgets, done_run>>

\* _init_stanza(), the except branch.
InitStanzaFails ==
  /\ nlp = NlpUnset
  /\ nlp' = NlpNone
  /\ called' = Called("_init_stanza", "returned", "")
  /\ \E exc \in InitErrors :
       dialog' = [box |-> "showwarning",
                  title |-> "Kontekstnyj analiz nedostupen", detail |-> exc]
  /\ output' = NoOutput
  /\ UNCHANGED <<morph, results, widgets, done_run>>

(***************************************************************************)
(* analyze()                                                               *)
(***************************************************************************)
\* The local accumulators after n iterations of the loop of the backend in use.
loop(n, m, text, k) ==
  IF n.kind = "Pipeline" THEN stanza_loop(nlp_call(n.model, text), k)
  ELSE morph_loop(m, finditer(text), k)

\* The number of iterations of that loop.
loop_length(n, text) ==
  IF n.kind = "Pipeline" THEN Len(nlp_call(n.model, text)) ELSE Len(finditer(text))

\* Lines 240-246: what self.entries, self.pos_counts, self.total_words become.
stored(acc) == <<lemma_entries(acc), acc.pos_counts, acc.total_words>>

\* Accumulating in the attributes of self instead of locals: an exception
\* leaves what was aggregated so far.
on_exception_partial(prev, acc) == acc

\* The accumulators are locals: an exception before line 244 leaves the
\* attributes of self as they were.
on_exception(prev, acc) == prev

\* _populate_pos_summary(): nothing when the total is 0 (line 295); else the
\* rows, or the error of count / total_words when a count is divided by 0.
populate_pos_summary(pc, total) ==
  IF total = 0 THEN [rows |-> <<>>, error |-> "returned"]
  ELSE IF \E l \in DOMAIN pc : total = 0
  THEN [rows |-> <<>>, error |-> "ZeroDivisionError"]
  ELSE [rows |-> summary_rows(pc, total), error |-> "returned"]

\* Lines 200-248 for one backend and one content of the text widget: the
\* stripped text, the number of iterations of the loop, the new attributes of
\* self, the rows of the two tables and how _populate_pos_summary() ended.
run(n, m, raw) ==
  LET text == strip(raw)
      new == stored(loop(n, m, text, loop_length(n, text)))
      summary == populate_pos_summary(new[2], new[3])
  IN [text |-> text, given |-> given(raw), length |-> loop_length(n, text),
      entries |-> new[1], pos_counts |-> new[2], total_words |-> new[3],
      tree |-> entry_rows(new[1]), pos_tree |-> summary.rows,
      outcome |-> summary.error]

\* run() tabulated over the backends and the texts of the model.
runs ==
  [n \in {NlpNone} \cup {NlpLoaded(p) : p \in Pipelines} |->
     [m \in Dictionaries |-> [raw \in Texts |-> run(n, m, raw)]]]

\* The text is empty after strip(): line 201.
AnalyzeNoText(raw) ==
  /\ nlp # NlpUnset
  /\ runs[nlp][morph][raw].text = <<>>
  /\ called' = Called("analyze", "returned", runs[nlp][morph][raw].given)
  /\ dialog' = [box |-> "showinfo", title |-> "Net teksta", detail |-> ""]
  /\ output' = NoOutput
  /\ UNCHANGED <<morph, nlp, results, widgets, done_run>>

\* AnalyzeCompletes extending self.entries instead of replacing it.
AnalyzeExtends(raw) ==
  /\ nlp # NlpUnset
  /\ LET r == runs[nlp][morph][raw]
     IN /\ r.text # <<>>
        /\ entries' = entries \o r.entries
        /\ pos_counts' = r.pos_counts
        /\ total_words' = r.total_words
        /\ tree' = entry_rows(entries \o r.entries)
        /\ total_words_label' = r.total_words
        /\ pos_tree' = r.pos_tree
        /\ called' = Called("analyze", r.outcome, r.given)
        /\ done_run' = Reached(r.text)
  /\ dialog' = NoDialog
  /\ output' = NoOutput
  /\ UNCHANGED <<morph, nlp>>

\* The run reaches line 246 and refreshes the two tables.
AnalyzeCompletes(raw) ==
  /\ nlp # NlpUnset
  /\ LET r == runs[nlp][morph][raw]
     IN /\ r.text # <<>>
        /\ entries' = r.entries
        /\ pos_counts' = r.pos_counts
        /\ total_words' = r.total_words
        /\ tree' = r.tree
        /\ total_words_label' = r.total_words
        /\ pos_tree' = r.pos_tree
        /\ called' = Called("analyze", r.outcome, r.given)
        /\ done_run' = Reached(r.text)
  /\ dialog' = NoDialog
  /\ output' = NoOutput
  /\ UNCHANGED <<morph, nlp>>

\* The backend raises: self.nlp(text) before the first word, or
\* self.morph.parse(token) on the token after the first k.
AnalyzeRaises(raw) ==
  /\ nlp # NlpUnset
  /\ LET r == runs[nlp][morph][raw]
     IN /\ r.text # <<>>
        /\ \E k \in 0..(IF nlp.kind = "Pipeline" THEN 0 ELSE r.length - 1) :
             LET kept == on_exception(results, stored(loop(nlp, morph, r.text, k)))
             IN /\ entries' = kept[1]
                /\ pos_counts' = kept[2]
                /\ total_words' = kept[3]
        /\ called' = Called("analyze", "BackendError", r.given)
  /\ dialog' = NoDialog
  /\ output' = NoOutput
  /\ UNCHANGED <<morph, nlp, widgets, done_run>>

(***************************************************************************)
(* show_pos_coefficients()                                                 *)
(***************************************************************************)
\* The guard of line 251 testing for a negative total.
no_coefficients_negative(pc, total) == total < 0

\* Line 251: not self.pos_counts or self.total_words == 0
no_coefficients(pc, total) == DOMAIN pc = {} \/ total = 0

\* Each coefficient count / self.total_words is kept as the exact ratio; the
\* division raises when there is a count to divide and the total is 0.  The
\* window is recorded with the mapping it draws.
ShowPosCoefficients ==
  /\ nlp # NlpUnset
  /\ IF no_coefficients(pos_counts, total_words)
     THEN /\ called' = Called("show_pos_coefficients", "returned", "")
          /\ dialog' = [box |-> "showinfo", title |-> "Net dannyh",
                        detail |-> "Snachala vypolnite analiz"]
          /\ output' = NoOutput
     ELSE IF total_words = 0 /\ DOMAIN pos_counts # {}
     THEN /\ called' = Called("show_pos_coefficients", "ZeroDivisionError", "")
          /\ dialog' = NoDialog
          /\ output' = NoOutput
     ELSE IF DOMAIN pos_counts = {}
     THEN /\ called' = Called("show_pos_coefficients", "returned", "")
          /\ dialog' = [box |-> "showinfo", title |-> "Net dannyh",
                        detail |-> "Nedostatochno dannyh dlya diagrammy"]
          /\ output' = [kind |-> "window", coefficients |-> EmptyDict]
     ELSE /\ called' = Called("show_pos_coefficients", "returned", "")
          /\ dialog' = NoDialog
          /\ output' = [kind |-> "window",
                        coefficients |->
                          [l \in DOMAIN pos_counts |-> <<pos_counts[l], total_words>>]]
  /\ UNCHANGED <<morph, nlp, results, widgets, done_run>>

(***************************************************************************)
(* export_excel()                                                          *)
(***************************************************************************)
\* Line 317: not self.entries
no_entries(es) == es = <<>>

SheetHeader ==
  <<"Nachalnaya forma", "Kolichestvo slovoform", "Slovoformy (s chastyu rechi)">>

\* file_path is what the save dialog returns ("" when cancelled); saved tells
\* whether workbook.save(file_path) succeeds.
ExportExcel(file_path, saved) ==
  /\ nlp # NlpUnset
  /\ IF no_entries(entries)
     THEN /\ called' = Called("export_excel", "returned", "")
          /\ dialog' = [box |-> "showinfo", title |-> "Net dannyh",
                        detail |-> "Snachala vypolnite analiz"]
          /\ output' = NoOutput
     ELSE IF file_path = ""
     THEN /\ called' = Called("export_excel", "returned", "")
          /\ dialog' = NoDialog
          /\ output' = NoOutput
     ELSE IF ~saved
     THEN /\ called' = Called("export_excel", "OSError", "")
          /\ dialog' = NoDialog
          /\ output' = NoOutput
     ELSE /\ called' = Called("export_excel", "returned", "")
          /\ dialog' = [box |-> "showinfo", title |-> "Gotovo", detail |-> file_path]
          /\ output' = [kind |-> "workbook", path |-> file_path,
                        rows |-> <<SheetHeader>> \o entry_rows(entries)]
  /\ UNCHANGED <<morph, nlp, results, widgets, done_run>>

FilePaths == {"", "analiz.xlsx"}

Next ==
  \/ InitStanzaLoads
  \/ InitStanzaFails
  \/ \E raw \in Texts : AnalyzeNoText(raw)
  \/ \E raw \in Texts : AnalyzeCompletes(raw)
  \/ \E raw \in Texts : AnalyzeRaises(raw)
  \/ ShowPosCoefficients
  \/ \E file_path \in FilePaths, saved \in BOOLEAN : ExportExcel(file_path, saved)

Spec == Init /\ [][Next]_vars
(***************************************************************************)
(* The words a run counts, and what a run must store, stated without the   *)
(* loops: by counting the occurrences and taking the first of each form.   *)
(***************************************************************************)
\* The (lemma, form, label) of every word the backend n (with dictionary m)
\* yields for the text and analyze() accepts, in order.
Occurrences(n, m, text) ==
  IF n.kind = "Pipeline"
  THEN LET ok == SelectSeq(nlp_call(n.model, text), LAMBDA w : fullmatch(w.text))
       IN [i \in 1..Len(ok) |->
             [lemma |-> lower(IF ok[i].lemma # <<>> THEN ok[i].lemma ELSE ok[i].text),
              form |-> lower(ok[i].text),
              label |-> pos_get(UD_POS_RU, ok[i].upos)]]
  ELSE LET ts == finditer(text)
       IN [i \in 1..Len(ts) |->
             [lemma |-> parse_first(m, ts[i]).normal_form,
              form |-> lower(ts[i]),
              label |-> pos_get(PYMORPHY_POS_RU, parse_first(m, ts[i]).POS)]]

\* The occurrences of the last completed run.
LastOccurrences == Occurrences(nlp, morph, done_run.text)

\* The index of the first occurrence of the form under the lemma.
FirstOccurrence(occ, lemma, form) ==
  CHOOSE i \in 1..Len(occ) :
    /\ occ[i].lemma = lemma /\ occ[i].form = form
    /\ \A j \in 1..(i - 1) : ~(occ[j].lemma = lemma /\ occ[j].form = form)

ExpectedEntry(occ, lemma) ==
  [lemma |-> lemma,
   count |-> Cardinality({i \in 1..Len(occ) : occ[i].lemma = lemma}),
   forms |-> [f \in {occ[i].form : i \in {j \in 1..Len(occ) : occ[j].lemma = lemma}} |->
                occ[FirstOccurrence(occ, lemma, f)].label]]

ExpectedEntries(occ) == {ExpectedEntry(occ, occ[i].lemma) : i \in 1..Len(occ)}

ExpectedPosCounts(occ) ==
  [l \in {occ[i].label : i \in 1..Len(occ)} |->
     Cardinality({i \in 1..Len(occ) : occ[i].label = l})]

\* The three attributes hold exactly the result of one run over occ.
HoldsResultOf(occ) ==
  /\ {entries[i] : i \in 1..Len(entries)} = ExpectedEntries(occ)
  /\ \A i, j \in 1..Len(entries) : i < j => str_lt(entries[i].lemma, entries[j].lemma)
  /\ DOMAIN pos_counts = DOMAIN ExpectedPosCounts(occ)
  /\ \A l \in DOMAIN pos_counts : pos_counts[l] = ExpectedPosCounts(occ)[l]
  /\ total_words = Len(occ)

HoldsNothing == entries = <<>> /\ DOMAIN pos_counts = {} /\ total_words = 0

RECURSIVE SumCounts(_)
SumCounts(es) == IF es = <<>> THEN 0 ELSE es[1].count + SumCounts(Tail(es))

RECURSIVE SumValues(_)
SumValues(d) ==
  IF DOMAIN d = {} THEN 0
  ELSE LET k == CHOOSE x \in DOMAIN d : TRUE
       IN d[k] + SumValues([x \in DOMAIN d \ {k} |-> d[x]])

\* The state right after an analyze() that reached line 246.
Completed == called.op = "analyze" /\ called.outcome = "returned" /\ called.given # "blank"

(***************************************************************************)
(* C1: the counts of all entries, the values of the POS summary and the    *)
(* stored total add up to the same number, the number of words the last    *)
(* completed run counted.                                                  *)
(***************************************************************************)
C1_SumsAgree ==
  /\ SumCounts(entries) = SumValues(pos_counts)
  /\ SumValues(pos_counts) = total_words
  /\ done_run.done => total_words = Len(LastOccurrences)

\* A completed run over two words that share a form.
C1_Witness ==
  /\ Completed
  /\ total_words = 2
  /\ \E i, j \in 1..Len(LastOccurrences) :
       i < j /\ LastOccurrences[i].form = LastOccurrences[j].form

(***************************************************************************)
(* C2: an analyze() that returns on a text without any word reports the    *)
(* empty-input condition and leaves entries, pos_counts and total_words    *)
(* as they were.                                                           *)
(***************************************************************************)
C2_NoWordsIsNoText ==
  [][(called'.op = "analyze" /\ called'.outcome = "returned"
        /\ called'.given \in {"blank", "no words"})
       => (dialog'.title = "Net teksta" /\ results' = results /\ done_run' = done_run)]_vars

(***************************************************************************)
(* C3: the label stored for a form of a lemma is the label of the first    *)
(* occurrence of that form under that lemma in the run.                    *)
(***************************************************************************)
C3_FirstLabelKept ==
  done_run.done =>
    \A e \in 1..Len(entries) : \A f \in DOMAIN entries[e].forms :
      /\ \E i \in 1..Len(LastOccurrences) :
           LastOccurrences[i].lemma = entries[e].lemma /\ LastOccurrences[i].form = f
      /\ entries[e].forms[f] =
           LastOccurrences[FirstOccurrence(LastOccurrences, entries[e].lemma, f)].label

\* A completed run where a later occurrence of a form under the same lemma
\* is tagged differently from the first.
C3_Witness ==
  /\ Completed
  /\ \E i, j \in 1..Len(LastOccurrences) :
       /\ i < j
       /\ LastOccurrences[i].lemma = LastOccurrences[j].lemma
       /\ LastOccurrences[i].form = LastOccurrences[j].form
       /\ LastOccurrences[i].label # LastOccurrences[j].label

(***************************************************************************)
(* C4: the three attributes are the initial empty ones or the complete     *)
(* result of the last run that completed, and a run the backend aborts     *)
(* leaves them as they were.                                               *)
(***************************************************************************)
C4_WholeResult ==
  IF done_run.done THEN HoldsResultOf(LastOccurrences) ELSE HoldsNothing

C4_Atomic ==
  /\ []C4_WholeResult
  /\ [][called'.outcome = "BackendError" => results' = results]_vars

\* The dictionary backend raised after a run had stored a result.
C4_Witness ==
  /\ called.op = "analyze" /\ called.outcome = "BackendError"
  /\ called.given = "words"
  /\ nlp = NlpNone
  /\ total_words > 0

(***************************************************************************)
(* C5: with no completed analysis, or with an empty result, coefficients   *)
(* and export report "no data" and do nothing else; no handler ever        *)
(* divides by a total of 0.                                                *)
(***************************************************************************)
C5_NoDataGuard ==
  /\ (called.op \in {"show_pos_coefficients", "export_excel"}
        /\ (~done_run.done \/ total_words = 0))
       => /\ dialog.box = "showinfo" /\ dialog.title = "Net dannyh"
          /\ called.outcome = "returned"
          /\ output = NoOutput
  /\ called.outcome # "ZeroDivisionError"

\* Coefficients requested before any analysis.
C5_Witness ==
  /\ ~done_run.done
  /\ called.op = "show_pos_coefficients"
  /\ dialog.title = "Net dannyh"

(***************************************************************************)
(* C6: self.nlp is assigned once, before any handler runs, and never       *)
(* again; a failed initialisation shows the warning with the error, and    *)
(* every later run that completes stores the result of the dictionary      *)
(* backend.                                                                *)
(***************************************************************************)
C6_Step ==
  /\ nlp # NlpUnset => nlp' = nlp
  /\ (nlp = NlpUnset /\ nlp' # NlpUnset)
       => /\ called.op = ""
          /\ nlp' = NlpNone =>
               (dialog'.box = "showwarning" /\ dialog'.detail \in InitErrors)
          /\ nlp' # NlpNone => (nlp'.kind = "Pipeline" /\ dialog' = NoDialog)

C6_FallbackAnalyses ==
  (nlp = NlpNone /\ Completed /\ called.given = "words")
    => /\ total_words > 0
       /\ HoldsResultOf(Occurrences(NlpNone, morph, done_run.text))

C6_SelectedOnce ==
  /\ [](nlp = NlpUnset => called.op = "")
  /\ []C6_FallbackAnalyses
  /\ [][C6_Step]_vars

\* A run completed on words after the initialisation had failed.
C6_Witness ==
  nlp = NlpNone /\ Completed /\ called.given = "words" /\ Len(entries) = 2

(***************************************************************************)
(* C7: what a completed run stores is a function of the text and the       *)
(* backend: it is the result of that text alone, and a run on the text of  *)
(* the previous completed run stores the same again.                       *)
(***************************************************************************)
C7_ResultOfText == Completed => HoldsResultOf(Occurrences(nlp, morph, done_run.text))

C7_Step ==
  (called'.op = "analyze" /\ called'.outcome = "returned" /\ called'.given # "blank"
     /\ done_run.done /\ done_run'.text = done_run.text)
    => results' = results

C7_FunctionOfText == []C7_ResultOfText /\ [][C7_Step]_vars

\* A text with two words analysed again right after a completed run on it.
C7_Witness == Completed /\ done_run.again /\ total_words = 2

(***************************************************************************)
(* C8: every entry has at least one form and at most count forms, and      *)
(* count is the number of occurrences of its lemma in the run.             *)
(***************************************************************************)
C8_CountBounds ==
  \A e \in 1..Len(entries) :
    /\ 1 <= Cardinality(DOMAIN entries[e].forms)
    /\ Cardinality(DOMAIN entries[e].forms) <= entries[e].count
    /\ done_run.done =>
         entries[e].count =
           Cardinality({i \in 1..Len(LastOccurrences) :
                          LastOccurrences[i].lemma = entries[e].lemma})

\* An entry counted more often than it has forms.
C8_Witness ==
  \E e \in 1..Len(entries) : entries[e].count > Cardinality(DOMAIN entries[e].forms)

(***************************************************************************)
(* C9: with a pipeline loaded, the words whose text does not fully match   *)
(* WORD_RE leave no trace: the result is that of the document without      *)
(* them, and every form stored is the lowercase of a matching text.        *)
(***************************************************************************)
LastDocument == nlp_call(nlp.model, done_run.text)

C9_NonMatchingDiscarded ==
  (nlp.kind = "Pipeline" /\ done_run.done) =>
    LET matching == SelectSeq(LastDocument, LAMBDA w : fullmatch(w.text))
    IN /\ results = stored(stanza_loop(matching, Len(matching)))
       /\ total_words = Len(matching)
       /\ SumCounts(entries) = Len(matching)
       /\ SumValues(pos_counts) = Len(matching)
       /\ \A e \in 1..Len(entries) : \A f \in DOMAIN entries[e].forms :
            \E i \in 1..Len(matching) : f = lower(matching[i].text)

\* A completed run whose document has a word that matches and one that does not.
C9_Witness ==
  /\ nlp.kind = "Pipeline" /\ Completed
  /\ total_words > 0
  /\ \E i \in 1..Len(LastDocument) :
       LastDocument[i].text # <<>> /\ ~fullmatch(LastDocument[i].text)

(***************************************************************************)
(* C10: entries, pos_counts and total_words are empty together, so the     *)
(* guard of export_excel and that of show_pos_coefficients agree.          *)
(***************************************************************************)
C10_EmptyTogether ==
  /\ (entries = <<>>) <=> (DOMAIN pos_counts = {})
  /\ (DOMAIN pos_counts = {}) <=> (total_words = 0)
  /\ no_entries(entries) <=> no_coefficients(pos_counts, total_words)

\* A completed run stored a word labelled "Неизвестно".
C10_Witness ==
  /\ done_run.done
  /\ Unknown \in DOMAIN pos_counts
  /\ called.op \in {"show_pos_coefficients", "export_excel"}
====
